---- MODULE Spec2Model ----
(***************************************************************************)
(* A file-per-key store (src/main.rs): DB::new, Storage::store and         *)
(* Storage::retrive over tokio's asynchronous file API, and the bounded    *)
(* concurrency driver write_keys_in_batches.                               *)
(*                                                                         *)
(* Every await of the source is one step of a task.  The file system is a  *)
(* root entry plus one record file per digest.  Bytes are the real byte    *)
(* values, so that String::as_bytes, i.to_string() and the UTF-8 check of  *)
(* read_to_string are computed and not assumed.                            *)
(*                                                                         *)
(* tokio::fs::File hands the bytes of a write to a blocking-pool           *)
(* operation and write_all returns once the last piece has been handed     *)
(* over; the source never flushes, so that operation (BgWrite) finishes    *)
(* after store has returned.                                               *)
(***************************************************************************)
EXTENDS Integers, Sequences, FiniteSets

\* ------------------------------------------------------------------ bounds
\* Width of the digest space (2^64 in the source), small enough for two
\* of the modelled keys to collide.
HashSpace == 2
\* Longest value a client stores.
MaxValLen == 2
\* Bytes one blocking write operation takes from write_all (tokio's buffer
\* limit, 2 MiB, scaled to the values of the model).
MaxBufSize == 1
\* Client tasks calling set/get concurrently.
NumTasks == 2
\* Iterations of the driver loop (5_000_000 in the source).
NumWrites == 3
\* Largest batch_size and concurrency_limit the driver is started with.
MaxBatch == 3
MaxConc == 2
\* Calls of set/get and of DB::new a run of the store makes.
MaxOps == 3
MaxOpens == 2
\* Input/output operations that fail in a run.
MaxFaults == 1

\* ----------------------------------------------------------------- helpers
Max(a, b) == IF a >= b THEN a ELSE b
Min(a, b) == IF a <= b THEN a ELSE b

SeqsUpTo(S, n) == UNION {[1..m -> S] : m \in 0..n}

Take(s, n) == SubSeq(s, 1, Min(n, Len(s)))
Drop(s, n) == SubSeq(s, Min(n, Len(s)) + 1, Len(s))

\* i.to_string(): the decimal digits of i as ASCII bytes.
RECURSIVE to_string(_)
to_string(i) ==
    IF i < 10 THEN <<48 + i>> ELSE to_string(i \div 10) \o <<48 + (i % 10)>>

\* calculate_hash: a deterministic digest of the key's bytes, of width
\* HashSpace.  Distinct keys can share a digest.
RECURSIVE HashFrom(_, _, _)
HashFrom(k, i, h) ==
    IF i > Len(k) THEN h ELSE HashFrom(k, i + 1, (h * 31 + k[i]) % HashSpace)

calculate_hash(k) == HashFrom(k, 1, 0)

\* The record file of a key: the decimal string of its digest under the root.
FileName(k) == to_string(calculate_hash(k))

\* The UTF-8 check of read_to_string, for one- and two-byte encodings.
RECURSIVE Utf8From(_, _)
Utf8From(s, i) ==
    IF i > Len(s) THEN TRUE
    ELSE IF s[i] < 128 THEN Utf8From(s, i + 1)
    ELSE IF s[i] >= 194 /\ s[i] <= 223 /\ i + 1 <= Len(s)
            /\ s[i + 1] >= 128 /\ s[i + 1] <= 191
         THEN Utf8From(s, i + 2)
    ELSE FALSE

IsUtf8(s) == Utf8From(s, 1)

\* (A variant: the file opened for appending.)
WriteAppend(content, off, data) == content \o data

\* A write of data at offset off of a file opened without O_APPEND: bytes
\* before off stay, a gap past the end of the file reads as zero bytes.
WriteAt(content, off, data) ==
    [p \in 1..Max(Len(content), off + Len(data)) |->
        IF p > off /\ p <= off + Len(data) THEN data[p - off]
        ELSE IF p <= Len(content) THEN content[p]
        ELSE 0]

\* ------------------------------------------------------------------ inputs
\* Keys are the strings "0", "1", ...: one more than there are digests.
Keys == {to_string(i) : i \in 0..HashSpace}
\* Two keys with one digest, when there are any.
Colliding ==
    {k \in Keys : \E k2 \in Keys : k2 # k /\ calculate_hash(k2) = calculate_hash(k)}
\* Values are the Strings (valid UTF-8) over '0', '1' and the two bytes of
\* an e-acute.
ValBytes == {48, 49, 195, 169}
Vals == {s \in SeqsUpTo(ValBytes, MaxValLen) : IsUtf8(s)}
\* A few of them: "0", "11" and the e-acute.
FewVals == {v \in Vals : v \in {<<48>>, <<49, 49>>, <<195, 169>>}}

\* The workloads a run is drawn from: which calls (set or get) it makes one
\* after the other or concurrently, on which keys and values, and how many
\* failing input/output operations and calls of DB::new there are.
AnyCalls(n) == [j \in 1..n |-> {"store", "retrive"}]
SetsThenGet(n) == [j \in 1..n |-> IF j < n THEN {"store"} ELSE {"retrive"}]
SetThenGets(n) == [j \in 1..n |-> IF j = 1 THEN {"store"} ELSE {"retrive"}]

\* One key, and two values: "0" and the longest value that ends in the
\* e-acute ("0...0" before it).
OneKey == {to_string(0)}
Accented ==
    [p \in 1..MaxValLen |->
        IF p = MaxValLen - 1 THEN 195 ELSE IF p = MaxValLen THEN 169 ELSE 48]
TwoVals == {v \in Vals : v \in {<<48>>, Accented}}
\* Two keys of different digests: "0" and "1".
Apart == {k \in Keys : k \in {to_string(0), to_string(1)}}

\* par is the number of calls that can be in flight together.
Plans ==
    {\* two calls on one key, with any values
     [calls |-> AnyCalls(2), faults |-> 0, opens |-> 1, par |-> 2,
      keys |-> OneKey, vals |-> Vals],
     \* two calls on any keys
     [calls |-> AnyCalls(2), faults |-> 0, opens |-> 1, par |-> 2,
      keys |-> Keys, vals |-> FewVals],
     \* as many calls as there are tasks, all in flight together
     [calls |-> AnyCalls(NumTasks), faults |-> 0, opens |-> 1, par |-> NumTasks,
      keys |-> OneKey, vals |-> TwoVals],
     \* sets in flight together, then a get
     [calls |-> SetsThenGet(NumTasks + 1), faults |-> 0, opens |-> 1,
      par |-> NumTasks, keys |-> OneKey, vals |-> TwoVals],
     \* two calls with failing input/output operations
     [calls |-> AnyCalls(2), faults |-> MaxFaults, opens |-> 1, par |-> 2,
      keys |-> Colliding, vals |-> FewVals],
     \* DB::new again on a store with a record
     [calls |-> AnyCalls(1), faults |-> 0, opens |-> MaxOpens, par |-> 1,
      keys |-> Keys, vals |-> FewVals],
     \* two sets in flight together, then a get, on keys of different digests
     [calls |-> SetsThenGet(3), faults |-> 0, opens |-> 1, par |-> 2,
      keys |-> Apart, vals |-> TwoVals],
     \* a set and then gets, one after the other
     [calls |-> SetThenGets(MaxOps), faults |-> 0, opens |-> 1, par |-> 1,
      keys |-> OneKey, vals |-> TwoVals],
     \* sets and then a get, one after the other, on colliding keys
     [calls |-> SetsThenGet(MaxOps), faults |-> 0, opens |-> 1, par |-> 1,
      keys |-> Colliding, vals |-> FewVals]}

Names == {to_string(d) : d \in 0..(HashSpace - 1)}
Slots == 1..Max(NumTasks, NumWrites)

NoFile == [exists |-> FALSE, data |-> <<>>]
FileOf(data) == [exists |-> TRUE, data |-> data]

None == [some |-> FALSE, val |-> <<>>]
Some(v) == [some |-> TRUE, val |-> v]

NoKey == <<>>

\* (A variant: as with create_new, an existing file is left as it is.)
OpenCreateNew(f) == IF f.exists THEN f ELSE FileOf(<<>>)

\* (A variant: the open of an existing file removes it.)
OpenRemoves(f) == IF f.exists THEN NoFile ELSE FileOf(<<>>)

\* (A variant: the open leaves the content in place.)
OpenKeeps(f) == FileOf(f.data)

\* What either open of store makes of the record file f: OpenOptions with
\* truncate(true), or File::create, both leave it existing and empty.
OpenTruncate(f) == FileOf(<<>>)

\* (A variant: a failed read gives the empty content read so far.)
read_ignoring_errors(content, fail) ==
    IF fail \/ ~IsUtf8(content) THEN Some(<<>>) ELSE Some(content)

\* (A variant: the bytes are not checked.)
read_unchecked(content, fail) == IF fail THEN None ELSE Some(content)

\* The match on read_to_string: Ok(_) => Some(content), Err(_) => None.
\* The read fails on an input/output error and on bytes that are not
\* valid UTF-8.
read_to_string(content, fail) ==
    IF ~fail /\ IsUtf8(content) THEN Some(content) ELSE None

\* (A variant: no error of create_dir is fatal.)
FatalNever(e) == FALSE

\* (A variant: every error of create_dir is fatal.)
FatalAlways(e) == e # "Ok"

\* if e.kind() != ErrorKind::AlreadyExists { panic!(..) }
Fatal(e) == e = "Other"

VARIABLES
    root,        \* what is at the storage path: "missing", "dir" or "file"
    files,       \* the record files under the root, by name
    db,          \* "none" before DB::new has returned, then "open"
    aborted,     \* the process has panicked
    tasks,       \* the store/retrive call each task is in
    semaphore,   \* available permits of the driver's semaphore
    handles,     \* the driver's Vec of JoinHandles (task slots)
    i,           \* the driver's loop variable
    dpc,         \* where the driver is
    batch_size, concurrency_limit,
    stored,      \* history: keys passed to store so far
    last,        \* history: per record file, the store that returned last
    obs,         \* history: what each call saw, per task
    opens,       \* history: how DB::new calls went (other: the last
                 \* create_dir failed, and not with AlreadyExists)
    ops,         \* history: calls of set/get made so far
    faults,      \* history: input/output failures so far
    plan         \* the workload of this run

vars == <<root, files, db, aborted, tasks, semaphore, handles, i, dpc,
          batch_size, concurrency_limit, stored, last, obs, opens, ops, faults, plan>>

driverVars == <<handles, i, dpc, batch_size, concurrency_limit, plan>>

\* Whether an operation that could succeed fails instead.
Outcomes == IF faults < plan.faults THEN {TRUE, FALSE} ELSE {FALSE}
Count(fail) == faults + (IF fail THEN 1 ELSE 0)


\* ------------------------------------------------------------ task records
IdleTask ==
    [op |-> "none", pc |-> "idle", key |-> NoKey, val |-> <<>>,
     file_exists |-> FALSE, off |-> 0, rem |-> <<>>, chunk |-> <<>>,
     werr |-> FALSE, permit |-> FALSE, result |-> None]

NoExpect == [set |-> FALSE, val |-> <<>>, key |-> NoKey, prevKey |-> NoKey,
             apart |-> FALSE]
NoGot == [set |-> FALSE, key |-> NoKey, res |-> [some |-> FALSE, val |-> <<>>]]
NoLast == [set |-> FALSE, key |-> NoKey, val |-> <<>>, clean |-> FALSE,
           prevKey |-> NoKey, begun |-> 0, beside |-> FALSE, got |-> NoGot]

NoObs ==
    [id |-> 0, with |-> {}, clean |-> FALSE, alone |-> FALSE, beside |-> FALSE,
     before |-> NoFile, failed |-> "none",
     expect |-> NoExpect, neverStored |-> FALSE, existed |-> FALSE,
     snap |-> <<>>, window |-> FALSE, writing |-> <<>>, ioerr |-> FALSE,
     calm |-> FALSE, prior |-> NoGot]

NameOf(t) == FileName(tasks[t].key)

\* A store that has been called and has not returned.
InFlightStore(t, n) ==
    /\ tasks[t].op = "store"
    /\ tasks[t].pc \in {"meta", "open", "write"}
    /\ NameOf(t) = n

\* A store that has opened (truncated) its file and whose bytes are not all
\* in the file yet.
WritingStore(t, n) ==
    /\ tasks[t].op = "store"
    /\ tasks[t].pc \in {"write", "returned"}
    /\ NameOf(t) = n

\* A store with anything left to do, its background write included.
ActiveStore(t, n) == InFlightStore(t, n) \/ WritingStore(t, n)

InFlightRetrive(t, n) ==
    /\ tasks[t].op = "retrive"
    /\ tasks[t].pc \in {"ropen", "read"}
    /\ NameOf(t) = n

InCall(t) == tasks[t].pc \notin {"idle", "done", "returned"}

Free(t) == tasks[t].pc \in {"idle", "done"}

\* The task that makes the next call: tasks are interchangeable, the first
\* that is free takes it.
NextFree(t) ==
    /\ t \in 1..NumTasks
    /\ Free(t)
    /\ \A u \in 1..(t - 1) : ~Free(u)
    /\ Cardinality({u \in 1..NumTasks : InCall(u)}) < plan.par

\* ----------------------------------------------------------- history notes
\* obs after task t has begun store(k, _): its own note, what the calls
\* it overlaps on the same record file lose, and the mark (beside) of sets
\* in flight together on different record files.
ObsStoreBegins(t, k) ==
    LET n == FileName(k) IN
    [u \in Slots |->
        IF u = t THEN
            [NoObs EXCEPT
                !.id = ops + 1,
                !.with = {obs[w].id : w \in {x \in Slots \ {t} : ActiveStore(x, n)}},
                !.clean = ~\E w \in Slots \ {t} : InFlightStore(w, n),
                !.alone = ~\E w \in Slots \ {t} : ActiveStore(w, n),
                !.beside = \E w \in Slots \ {t} :
                               InFlightStore(w, NameOf(w)) /\ NameOf(w) # n,
                !.before = files[n]]
        ELSE IF ActiveStore(u, n) THEN
            [obs[u] EXCEPT !.alone = FALSE,
                           !.with = @ \cup {ops + 1},
                           !.clean = IF InFlightStore(u, n) THEN FALSE ELSE @]
        ELSE IF InFlightRetrive(u, n)
             THEN [obs[u] EXCEPT !.expect = NoExpect, !.calm = FALSE]
        ELSE IF InFlightStore(u, NameOf(u)) THEN [obs[u] EXCEPT !.beside = TRUE]
        ELSE obs[u]]

\* obs after an input/output failure has hit task t on record file n.
ObsFailure(t, n, what) ==
    [u \in Slots |->
        IF u = t THEN [obs[u] EXCEPT !.failed = what, !.ioerr = TRUE,
                                     !.expect = NoExpect]
        ELSE IF InFlightRetrive(u, n) THEN [obs[u] EXCEPT !.expect = NoExpect]
        ELSE obs[u]]

\* last after store of task t has returned; good: nothing failed so far.
LastReturned(t, good) ==
    LET n == NameOf(t) IN
    [last EXCEPT ![n] =
        [set |-> TRUE, key |-> tasks[t].key, val |-> tasks[t].val,
         clean |-> good /\ obs[t].clean /\ obs[t].failed = "none",
         prevKey |-> last[n].key, begun |-> last[n].begun,
         beside |-> obs[t].beside, got |-> last[n].got]]

LastDirty(n) == [last EXCEPT ![n].clean = FALSE]

\* last after retrive of task t has returned res: the result is kept for
\* the next get when no set was in flight on the record file during this
\* one and no input/output operation of it failed.
LastGot(t, res, failed) ==
    [last EXCEPT ![NameOf(t)].got =
        IF obs[t].calm /\ ~failed
        THEN [set |-> TRUE, key |-> tasks[t].key, res |-> res]
        ELSE NoGot]

\* (A variant: the permit is given back twice.)
ReleasedTwice(t) == IF tasks[t].permit THEN 2 ELSE 0

\* (A variant: the permit is never given back.)
Kept(t) == 0

\* The permit a driver task gives back when its future ends: drop(permit)
\* runs in the same poll in which db.set returns.
Released(t) == IF tasks[t].permit THEN 1 ELSE 0

\* -------------------------------------------------------------------- Init
Init ==
    /\ root \in {"missing", "dir", "file"}
    /\ files = [n \in Names |-> NoFile]
    /\ db = "none"
    /\ aborted = FALSE
    /\ tasks = [t \in Slots |-> IdleTask]
    /\ semaphore = 0
    /\ handles = <<>>
    /\ i = 0
    /\ dpc = "off"
    /\ batch_size = 0
    /\ concurrency_limit = 0
    /\ stored = {}
    /\ last = [n \in Names |-> NoLast]
    /\ obs = [t \in Slots |-> NoObs]
    /\ opens = [calls |-> 0, kept |-> FALSE, other |-> FALSE]
    /\ ops = 0
    /\ faults = 0
    /\ plan \in Plans

\* ----------------------------------------------------------------- DB::new
\* fs::create_dir(&path): Ok when nothing is at the path, AlreadyExists
\* when something (a directory or a file) is, or another error.
create_dir ==
    IF root = "missing" THEN {"Ok", "Other"} ELSE {"AlreadyExists"}

DBNew ==
    /\ ~aborted
    /\ dpc = "off"
    /\ opens.calls < plan.opens
    /\ \E e \in create_dir :
        IF Fatal(e)
        THEN /\ aborted' = TRUE
             /\ opens' = [opens EXCEPT !.other = e = "Other"]
             /\ UNCHANGED <<root, db>>
        ELSE /\ root' = IF e = "Ok" THEN "dir" ELSE root
             /\ db' = "open"
             /\ opens' = [calls |-> opens.calls + 1,
                          kept |-> opens.kept \/
                                   (db = "open" /\ \E n \in Names : files[n].exists),
                          other |-> e = "Other"]
             /\ UNCHANGED aborted
    /\ UNCHANGED <<files, tasks, semaphore, stored, last, obs, ops, faults>>
    /\ UNCHANGED driverVars


\* ------------------------------------------------------ Storage::store
\* store is called (DB::set): the path is computed, nothing is awaited yet.
Begin(t, k, v, withPermit) ==
    /\ tasks' = [tasks EXCEPT ![t] =
                    [IdleTask EXCEPT !.op = "store", !.pc = "meta", !.key = k,
                                     !.val = v, !.permit = withPermit]]
    /\ obs' = ObsStoreBegins(t, k)
    /\ stored' = stored \cup {k}
    /\ last' = [last EXCEPT ![FileName(k)].begun = ops + 1,
                            ![FileName(k)].got = NoGot]
    /\ ops' = ops + 1

StartStore(t, k, v) ==
    /\ ~aborted /\ db = "open" /\ dpc = "off"
    /\ NextFree(t)
    /\ ops < Len(plan.calls) /\ "store" \in plan.calls[ops + 1]
    /\ k \in plan.keys /\ v \in plan.vals
    /\ Begin(t, k, v, FALSE)
    /\ UNCHANGED <<root, files, db, aborted, semaphore, opens, faults>>
    /\ UNCHANGED driverVars

\* tokio::fs::metadata(path).await.is_ok(): true only for an existing file;
\* false also when the lookup itself fails.
StoreMeta(t) ==
    /\ ~aborted
    /\ tasks[t].op = "store" /\ tasks[t].pc = "meta"
    /\ \E fail \in Outcomes :
        LET there == root = "dir" /\ files[NameOf(t)].exists IN
        /\ fail => there
        /\ tasks' = [tasks EXCEPT ![t].file_exists = there /\ ~fail,
                                  ![t].pc = "open"]
        /\ faults' = Count(fail)
    /\ UNCHANGED <<root, files, db, aborted, semaphore, stored, last, obs, opens, ops>>
    /\ UNCHANGED driverVars

\* The open of either branch.  Both leave an empty file: OpenOptions with
\* write+truncate needs the file to exist, File::create creates or
\* truncates.  A failed open (.ok() gives None) ends store at once.
StoreOpen(t) ==
    LET n == NameOf(t)
        can == root = "dir" /\ (tasks[t].file_exists => files[n].exists)
    IN
    /\ ~aborted
    /\ tasks[t].op = "store" /\ tasks[t].pc = "open"
    /\ \E fail \in Outcomes :
        /\ fail => can
        /\ faults' = Count(fail)
        /\ IF can /\ ~fail
           THEN /\ files' = [files EXCEPT ![n] = OpenTruncate(@)]
                /\ tasks' = [tasks EXCEPT ![t].pc = "write", ![t].off = 0,
                                          ![t].rem = tasks[t].val]
                /\ UNCHANGED <<semaphore, last, obs>>
           ELSE /\ tasks' = [tasks EXCEPT ![t].pc = "done", ![t].permit = FALSE]
                /\ semaphore' = semaphore + Released(t)
                /\ obs' = ObsFailure(t, n, "open")
                /\ last' = LastReturned(t, FALSE)
                /\ UNCHANGED files
    /\ UNCHANGED <<root, db, aborted, stored, opens, ops>>
    /\ UNCHANGED driverVars

\* file.write_all(val.as_bytes()).await.ok(): each poll_write hands at most
\* MaxBufSize bytes to a blocking write operation and returns their count
\* without waiting for it; the next poll_write waits for the operation in
\* flight and reports its error.  After the last piece write_all returns,
\* the file is dropped and store returns, with that operation still to run.
StoreWrite(t) ==
    LET n == NameOf(t)
        piece == Take(tasks[t].rem, MaxBufSize)
        rest == Drop(tasks[t].rem, MaxBufSize)
    IN
    /\ ~aborted
    /\ tasks[t].op = "store" /\ tasks[t].pc = "write"
    /\ tasks[t].chunk = <<>>
    /\ IF tasks[t].werr \/ tasks[t].rem = <<>>
       THEN /\ tasks' = [tasks EXCEPT ![t].pc = "done", ![t].rem = <<>>,
                                      ![t].permit = FALSE]
            /\ semaphore' = semaphore + Released(t)
            /\ last' = LastReturned(t, ~tasks[t].werr)
       ELSE /\ tasks' = [tasks EXCEPT
                            ![t].chunk = piece, ![t].rem = rest,
                            ![t].pc = IF rest = <<>> THEN "returned" ELSE "write",
                            ![t].permit = IF rest = <<>> THEN FALSE ELSE @]
            /\ semaphore' = semaphore + (IF rest = <<>> THEN Released(t) ELSE 0)
            /\ last' = IF rest = <<>> THEN LastReturned(t, TRUE) ELSE last
    /\ UNCHANGED <<root, files, db, aborted, stored, obs, opens, ops, faults>>
    /\ UNCHANGED driverVars

\* The blocking write operation of a piece: it writes at the descriptor's
\* offset and advances it, or fails (the error is kept for the next
\* poll_write, and lost when there is none).
BgWrite(t) ==
    LET n == NameOf(t)
        after == IF tasks[t].pc = "returned" THEN "done" ELSE tasks[t].pc
    IN
    /\ ~aborted
    /\ tasks[t].op = "store" /\ tasks[t].chunk # <<>>
    /\ \E fail \in Outcomes :
        /\ faults' = Count(fail)
        /\ IF fail
           THEN /\ tasks' = [tasks EXCEPT ![t].chunk = <<>>, ![t].werr = TRUE,
                                          ![t].pc = after]
                /\ obs' = ObsFailure(t, n, "write")
                /\ last' = LastDirty(n)
                /\ UNCHANGED files
           ELSE /\ files' = [files EXCEPT ![n].data =
                                 WriteAt(@, tasks[t].off, tasks[t].chunk)]
                /\ tasks' = [tasks EXCEPT ![t].chunk = <<>>,
                                          ![t].off = @ + Len(tasks[t].chunk),
                                          ![t].pc = after]
                /\ UNCHANGED <<obs, last>>
    /\ UNCHANGED <<root, db, aborted, semaphore, stored, opens, ops>>
    /\ UNCHANGED driverVars

\* ---------------------------------------------------- Storage::retrive
StartRetrive(t, k) ==
    LET n == FileName(k)
        quiet == ~\E w \in Slots : InFlightStore(w, n)
        settled == ~\E w \in Slots : InFlightStore(w, NameOf(w))
    IN
    /\ ~aborted /\ db = "open" /\ dpc = "off"
    /\ NextFree(t)
    /\ ops < Len(plan.calls) /\ "retrive" \in plan.calls[ops + 1]
    /\ k \in plan.keys
    /\ ops' = ops + 1
    /\ tasks' = [tasks EXCEPT ![t] =
                    [IdleTask EXCEPT !.op = "retrive", !.pc = "ropen", !.key = k]]
    /\ obs' = [obs EXCEPT ![t] =
                 [NoObs EXCEPT !.id = ops + 1, !.calm = quiet,
                               !.prior = IF quiet /\ last[n].got.key = k
                                         THEN last[n].got ELSE NoGot,
                               !.expect =
                     IF last[n].set /\ last[n].clean /\ quiet
                     THEN [set |-> TRUE, val |-> last[n].val,
                           key |-> last[n].key, prevKey |-> last[n].prevKey,
                           apart |-> last[n].beside /\ settled]
                     ELSE NoExpect]]
    /\ UNCHANGED <<root, files, db, aborted, semaphore, stored, last, opens, faults>>
    /\ UNCHANGED driverVars

\* File::open(path).await: Err(_) => return None.
RetriveOpen(t) ==
    LET n == NameOf(t)
        there == root = "dir" /\ files[n].exists
    IN
    /\ ~aborted
    /\ tasks[t].op = "retrive" /\ tasks[t].pc = "ropen"
    /\ \E fail \in Outcomes :
        /\ fail => there
        /\ faults' = Count(fail)
        /\ IF there /\ ~fail
           THEN /\ tasks' = [tasks EXCEPT ![t].pc = "read"]
                /\ obs' = [obs EXCEPT ![t].existed = TRUE]
                /\ UNCHANGED last
           ELSE /\ tasks' = [tasks EXCEPT ![t].pc = "done", ![t].result = None]
                /\ last' = LastGot(t, None, there)
                /\ obs' = [obs EXCEPT ![t].existed = there, ![t].ioerr = there,
                                   ![t].neverStored = tasks[t].key \notin stored,
                                   ![t].expect = IF there THEN NoExpect ELSE @]
    /\ UNCHANGED <<root, files, db, aborted, semaphore, stored, opens, ops>>
    /\ UNCHANGED driverVars

\* file.read_to_string(&mut content).await: the whole file, which must be
\* valid UTF-8; Ok(_) => Some(content), Err(_) => None.
RetriveRead(t) ==
    LET n == NameOf(t)
        content == files[n].data
        writers == {w \in Slots : WritingStore(w, n) /\ obs[w].alone
                                    /\ obs[w].before.exists
                                    /\ obs[w].failed = "none"}
    IN
    /\ ~aborted
    /\ tasks[t].op = "retrive" /\ tasks[t].pc = "read"
    /\ \E fail \in Outcomes :
        /\ faults' = Count(fail)
        /\ tasks' = [tasks EXCEPT
                        ![t].pc = "done",
                        ![t].result = read_to_string(content, fail)]
        /\ obs' = [obs EXCEPT
                      ![t].snap = content, ![t].ioerr = fail,
                      ![t].window = writers # {},
                      ![t].writing = IF writers = {} THEN <<>>
                                     ELSE tasks[CHOOSE w \in writers : TRUE].val,
                      ![t].neverStored = tasks[t].key \notin stored,
                      ![t].expect = IF fail THEN NoExpect ELSE @]
        /\ last' = LastGot(t, read_to_string(content, fail), fail)
    /\ UNCHANGED <<root, files, db, aborted, semaphore, stored, opens, ops>>
    /\ UNCHANGED driverVars

\* ------------------------------------------------------------- the store
Next ==
    \/ DBNew
    \/ \E t \in Slots, k \in plan.keys, v \in plan.vals : StartStore(t, k, v)
    \/ \E t \in Slots : StoreMeta(t)
    \/ \E t \in Slots : StoreOpen(t)
    \/ \E t \in Slots : StoreWrite(t)
    \/ \E t \in Slots : BgWrite(t)
    \/ \E t \in Slots, k \in plan.keys : StartRetrive(t, k)
    \/ \E t \in Slots : RetriveOpen(t)
    \/ \E t \in Slots : RetriveRead(t)

Spec == Init /\ [][Next]_vars


\* ------------------------------------------------ write_keys_in_batches
\* The driver at the head of its loop, as main starts it on an opened
\* store: Semaphore::new(concurrency_limit), handles empty, i = 0.
DriverPlan ==
    [calls |-> <<>>, faults |-> MaxFaults, opens |-> 0, keys |-> {}, vals |-> {},
     par |-> 0]

DriverInit ==
    /\ root = "dir"
    /\ files = [n \in Names |-> NoFile]
    /\ db = "open"
    /\ aborted = FALSE
    /\ tasks = [t \in Slots |-> IdleTask]
    /\ batch_size \in 0..MaxBatch
    /\ concurrency_limit \in 0..MaxConc
    /\ semaphore = concurrency_limit
    /\ handles = <<>>
    /\ i = 0
    /\ dpc = "loop"
    /\ stored = {}
    /\ last = [n \in Names |-> NoLast]
    /\ obs = [t \in Slots |-> NoObs]
    /\ opens = [calls |-> 1, kept |-> FALSE, other |-> FALSE]
    /\ ops = 0
    /\ faults = 0
    /\ plan = DriverPlan

\* (A variant: no admission control.)
NoGate == TRUE

\* semaphore.clone().acquire_owned().await returns once a permit is free.
PermitAvailable == semaphore > 0

\* (A variant: the await of a handle does not wait for its task.)
Detached(t) == TRUE

\* The future of a spawned task has ended: db.set has returned and the
\* permit is dropped.
Finished(t) == tasks[t].pc \in {"returned", "done"} /\ ~tasks[t].permit

\* One iteration of the loop: acquire_owned().await gives a permit once
\* one is available; the task is spawned with it and its handle pushed;
\* a full handle list is drained before the next iteration.
DriverSpawn ==
    /\ ~aborted
    /\ dpc = "loop" /\ i < NumWrites
    /\ PermitAvailable
    /\ semaphore' = semaphore - 1
    /\ Begin(i + 1, to_string(i), to_string(i), TRUE)
    /\ handles' = Append(handles, i + 1)
    /\ dpc' = IF Len(handles') >= batch_size THEN "drain" ELSE "loop"
    /\ i' = i + 1
    /\ UNCHANGED <<root, files, db, aborted, opens, faults, plan,
                   batch_size, concurrency_limit>>

\* (A variant: the drain awaits one handle and goes on with the loop.)
DrainOne ==
    /\ ~aborted
    /\ dpc = "drain"
    /\ handles # <<>> /\ Finished(Head(handles))
    /\ handles' = Tail(handles)
    /\ dpc' = "loop"
    /\ UNCHANGED <<root, files, db, aborted, tasks, semaphore, i, stored, last,
                   obs, opens, ops, faults, plan, batch_size, concurrency_limit>>

\* for handle in handles.drain(..) { let _ = handle.await; }
DriverDrain ==
    /\ ~aborted
    /\ dpc = "drain"
    /\ handles # <<>> /\ Finished(Head(handles))
    /\ handles' = Tail(handles)
    /\ dpc' = IF handles' = <<>> THEN "loop" ELSE "drain"
    /\ UNCHANGED <<root, files, db, aborted, tasks, semaphore, i, stored, last,
                   obs, opens, ops, faults, plan, batch_size, concurrency_limit>>

\* The loop is over: the remaining handles are awaited, then the driver
\* prints and returns.
DriverLoopEnd ==
    /\ ~aborted
    /\ dpc = "loop" /\ i = NumWrites
    /\ dpc' = IF handles = <<>> THEN "returned" ELSE "final"
    /\ UNCHANGED <<root, files, db, aborted, tasks, semaphore, handles, i,
                   stored, last, obs, opens, ops, faults, plan, batch_size,
                   concurrency_limit>>

DriverFinal ==
    /\ ~aborted
    /\ dpc = "final"
    /\ handles # <<>> /\ Finished(Head(handles))
    /\ handles' = Tail(handles)
    /\ dpc' = IF handles' = <<>> THEN "returned" ELSE "final"
    /\ UNCHANGED <<root, files, db, aborted, tasks, semaphore, i, stored, last,
                   obs, opens, ops, faults, plan, batch_size, concurrency_limit>>

DriverNext ==
    \/ DriverSpawn
    \/ DriverDrain
    \/ DriverLoopEnd
    \/ DriverFinal
    \/ \E t \in Slots : StoreMeta(t)
    \/ \E t \in Slots : StoreOpen(t)
    \/ \E t \in Slots : StoreWrite(t)
    \/ \E t \in Slots : BgWrite(t)

DriverSpec == DriverInit /\ [][DriverNext]_vars

\* The runtime of #[tokio::main] and its blocking pool do not stand still
\* while the driver, a spawned task or a write operation can make a step.
DriverFairSpec == DriverInit /\ [][DriverNext]_vars /\ WF_vars(DriverNext)

\* ------------------------------------------------------------------ claims
RetriveDone(t) == tasks[t].op = "retrive" /\ tasks[t].pc = "done"
StoreDone(t) == tasks[t].op = "store" /\ tasks[t].pc = "done"

\* A get that began after set(k, v) had returned, with no other set on the
\* record file of k in flight since that set was called, and no failed
\* input/output operation on it.
Follows(t) == RetriveDone(t) /\ obs[t].expect.set

\* C1: round trip.  A get(k) that follows a completed set(k, v), with no
\* concurrent writer of k, returns exactly Some(v).
C1_RoundTrip ==
    \A t \in Slots :
        (Follows(t) /\ obs[t].expect.key = tasks[t].key)
            => tasks[t].result = Some(obs[t].expect.val)

\* C2: overwrite.  After set(k, v1), then set(k, v2), then get(k), one
\* after the other, the get returns Some(v2): not v1, not a mixture.
C2_Overwrite ==
    \A t \in Slots :
        (/\ Follows(t)
         /\ obs[t].expect.key = tasks[t].key
         /\ obs[t].expect.prevKey = tasks[t].key)
            => tasks[t].result = Some(obs[t].expect.val)

\* C3: absence.  A get(k) for a key never passed to set returns None.
C3_Absence ==
    \A t \in Slots :
        (RetriveDone(t) /\ obs[t].neverStored) => tasks[t].result = None

\* C4: collision as built.  After set(k1, v1) then set(k2, v2) with
\* k1 # k2 of one digest, get(k1) and get(k2) both return Some(v2).
C4_Collision ==
    \A t \in Slots :
        (/\ Follows(t)
         /\ obs[t].expect.prevKey # NoKey
         /\ obs[t].expect.prevKey # obs[t].expect.key)
            => tasks[t].result = Some(obs[t].expect.val)


\* Two sets on one key that were in flight together, with no other set
\* on that record file at work beside them or begun since, no failed
\* operation, and every byte of both in the file.
ConcurrentPair(t, u) ==
    /\ t # u
    /\ StoreDone(t) /\ StoreDone(u)
    /\ tasks[t].key = tasks[u].key
    /\ obs[t].with = {obs[u].id} /\ obs[u].with = {obs[t].id}
    /\ ~obs[t].clean /\ ~obs[u].clean
    /\ obs[t].failed = "none" /\ obs[u].failed = "none"
    /\ last[NameOf(t)].begun \in {obs[t].id, obs[u].id}

\* Every byte of f is the byte of v1 or of v2 at its position, or the zero
\* byte of a gap, and f is no longer than the longer of the two.
ByteWise(f, v1, v2) ==
    /\ Len(f) <= Max(Len(v1), Len(v2))
    /\ \A p \in 1..Len(f) :
        \/ p <= Len(v1) /\ f[p] = v1[p]
        \/ p <= Len(v2) /\ f[p] = v2[p]
        \/ f[p] = 0

\* C5 as stated: after concurrent set(k, v1) and set(k, v2) have both
\* completed, the record file holds exactly v1 or exactly v2, whatever
\* their lengths.
C5_ExactlyOne ==
    \A t, u \in Slots :
        ConcurrentPair(t, u)
            => files[NameOf(t)].data \in {tasks[t].val, tasks[u].val}

\* C5 amended: after both, the file is made of bytes of v1 and v2 at their
\* own positions (a shorter value can be followed by the tail of the
\* longer one); it is exactly v1 or v2 when the two have one length and
\* each is written by one write operation.
C5_LastWriteWins ==
    \A t, u \in Slots :
        ConcurrentPair(t, u) =>
            LET f == files[NameOf(t)].data
                v1 == tasks[t].val
                v2 == tasks[u].val
            IN  /\ files[NameOf(t)].exists
                /\ ByteWise(f, v1, v2)
                /\ (Len(v1) = Len(v2) /\ Len(v1) <= MaxBufSize) => f \in {v1, v2}

C5_Witness ==
    \E t, u \in Slots :
        /\ ConcurrentPair(t, u)
        /\ tasks[t].val # tasks[u].val
        /\ Len(tasks[t].val) = Len(tasks[u].val)
        /\ Len(tasks[t].val) <= MaxBufSize
        /\ files[NameOf(t)].data = tasks[t].val

IsPrefix(p, v) == Len(p) <= Len(v) /\ p = Take(v, Len(p))

\* C6: a get that reads the record file of an existing key while one set
\* stands between its truncation and the end of its write sees the part
\* written so far: it returns None when that part is not valid UTF-8 (a
\* character cut in two), and Some of that part (empty right after the
\* truncation) otherwise.
C6_HalfWritten ==
    \A t \in Slots :
        (RetriveDone(t) /\ obs[t].window /\ ~obs[t].ioerr) =>
            /\ IsPrefix(obs[t].snap, obs[t].writing)
            /\ tasks[t].result =
                 IF IsUtf8(obs[t].snap) THEN Some(obs[t].snap) ELSE None

C6_Witness ==
    \E t \in Slots :
        /\ RetriveDone(t) /\ obs[t].window /\ ~obs[t].ioerr
        /\ tasks[t].result = None

\* A set on which an input/output operation failed, that has ended, with
\* no other set at work on its record file during it or begun since.
FailedAlone(t) ==
    /\ StoreDone(t)
    /\ obs[t].failed # "none"
    /\ obs[t].alone
    /\ last[NameOf(t)].begun = obs[t].id

\* C8 as stated: a set whose open or write fails leaves the record file
\* with the content it had before the call.
C8_NoOp ==
    \A t \in Slots :
        FailedAlone(t) => files[NameOf(t)] = obs[t].before

\* C8 amended: a set whose open fails leaves the record file as it was; a
\* set whose write fails leaves the file its open has emptied, holding the
\* part of the value written before the failure and nothing of the
\* content before.  Neither reports an error or panics.
C8_SilentFailure ==
    \A t \in Slots :
        FailedAlone(t) =>
            /\ ~aborted
            /\ obs[t].failed = "open" => files[NameOf(t)] = obs[t].before
            /\ obs[t].failed = "write" =>
                /\ files[NameOf(t)].exists
                /\ IsPrefix(files[NameOf(t)].data, tasks[t].val)
                /\ files[NameOf(t)].data # tasks[t].val

C8_Witness ==
    \E t \in Slots :
        /\ FailedAlone(t)
        /\ obs[t].failed = "write"
        /\ obs[t].before.exists /\ obs[t].before.data # <<>>
        /\ files[NameOf(t)].data = <<>>

\* C9: get returns None when the record file does not exist or opening or
\* reading it fails, Some(the whole content) otherwise, and never panics.
C9_FailureIsAbsence ==
    \A t \in Slots :
        RetriveDone(t) =>
            /\ ~aborted
            /\ tasks[t].result =
                 IF obs[t].existed /\ ~obs[t].ioerr /\ IsUtf8(obs[t].snap)
                 THEN Some(obs[t].snap) ELSE None

C9_Witness ==
    \E t \in Slots :
        /\ RetriveDone(t)
        /\ obs[t].existed /\ obs[t].ioerr
        /\ tasks[t].result = None

\* C10: DB::new on a root that an earlier DB::new has opened returns
\* again, and leaves every record file as it was.
C10_IdempotentOpen ==
    [][(DBNew /\ db = "open")
          => (~aborted' /\ db' = "open" /\ root' = root /\ files' = files)]_vars

C10_Witness ==
    opens.calls >= 2 /\ opens.kept /\ \E n \in Names : files[n].data # <<>>

\* C11: DB::new panics exactly when create_dir fails with an error other
\* than AlreadyExists, and returns a handle on the root otherwise; no step
\* of store or retrive makes the process panic.
C11_FatalOnlyAtOpen ==
    [][/\ DBNew => /\ aborted' <=> opens'.other
                   /\ ~aborted' => db' = "open"
       /\ aborted' # aborted => DBNew]_vars

\* DB::new has panicked on such an error.
C11_Witness == aborted /\ opens.other /\ db = "none"

\* C12: once DB::new has returned, the root path is a directory, whatever
\* was at the path before: nothing, a directory or a regular file.
C12_OpenEnsuresRoot == db = "open" => root = "dir"

\* C13: no step of DB::new, store or retrive deletes a record file: one
\* that exists in a state exists in every later state.
C13_NoDeletion ==
    [][\A n \in Names : files[n].exists => files'[n].exists]_vars

\* A set has opened, and emptied, a record file that existed with content
\* before it.
C13_Witness ==
    \E t \in Slots :
        /\ tasks[t].op = "store" /\ tasks[t].pc = "write"
        /\ obs[t].before.exists /\ obs[t].before.data # <<>>
        /\ files[NameOf(t)] = FileOf(<<>>)


\* The tasks past the admission point: spawned with a permit that they
\* have not dropped yet, their set still in flight.
PastAdmission == {t \in Slots : tasks[t].permit}
InFlight == {t \in Slots : InFlightStore(t, NameOf(t))}

\* C7: at most concurrency_limit tasks are past the admission point.
C7_BoundedConcurrency ==
    /\ Cardinality(PastAdmission) <= concurrency_limit
    /\ Cardinality(InFlight) <= concurrency_limit

\* The gate is full with two tasks in flight and another iteration waits.
C7_Witness ==
    /\ concurrency_limit >= 2
    /\ Cardinality(InFlight) = concurrency_limit
    /\ dpc = "loop" /\ i < NumWrites

\* C14: with batch_size >= 1 and concurrency_limit >= 1, whichever is the
\* larger, the driver returns in the end, having made every iteration of
\* its loop: each acquire_owned has been granted.
C14_DriverTerminates ==
    (batch_size >= 1 /\ concurrency_limit >= 1)
        ~> (dpc = "returned" /\ i = NumWrites)

\* The driver has returned after all its iterations, with a batch larger
\* than the gate.
C14_Witness ==
    /\ dpc = "returned" /\ i = NumWrites
    /\ concurrency_limit >= 1 /\ batch_size > concurrency_limit

\* C15: when the driver returns, every iteration has been made, every task
\* it spawned has ended (its set has returned) and every permit is back in
\* the semaphore.
C15_DriverCompletion ==
    dpc = "returned" =>
        /\ i = NumWrites /\ handles = <<>>
        /\ \A t \in 1..NumWrites : tasks[t].op = "store" /\ Finished(t)
        /\ InFlight = {} /\ PastAdmission = {}
        /\ semaphore = concurrency_limit

\* The driver has returned with a gate of two permits or more.
C15_Witness ==
    /\ dpc = "returned" /\ concurrency_limit >= 2
    /\ \A t \in 1..NumWrites : tasks[t].op = "store"
    /\ semaphore = concurrency_limit

\* C16: with batch_size >= 1 the handle list never holds more than
\* batch_size handles; a task is spawned only from the loop with fewer
\* than batch_size handles pending, and a drain that has begun ends with
\* the list empty.
C16_BoundedHandles ==
    [][batch_size >= 1 =>
          /\ Len(handles') <= batch_size
          /\ i' # i => (dpc = "loop" /\ Len(handles) < batch_size)
          /\ (dpc = "drain" /\ dpc' # "drain") => handles' = <<>>]_vars

\* A list of two handles or more is full and about to be drained.
C16_Witness ==
    dpc = "drain" /\ batch_size >= 2 /\ Len(handles) = batch_size

\* C17: the permits in the semaphore and those held by tasks always add up
\* to concurrency_limit; a task holds its permit exactly while its set is
\* in flight, and a set that fails gives it back like any other.
C17_PermitConservation ==
    /\ semaphore + Cardinality(PastAdmission) = concurrency_limit
    /\ semaphore \in 0..concurrency_limit
    /\ PastAdmission = InFlight

\* A set whose open failed has ended and every permit is back.
C17_Witness ==
    /\ concurrency_limit >= 1 /\ semaphore = concurrency_limit
    /\ \E t \in Slots : StoreDone(t) /\ obs[t].failed = "open"

\* A step that changes a record file is a step of a set on a key of that
\* file's digest.
OnlyOwnRecord ==
    \A n \in Names :
        files'[n] # files[n] =>
            \E t \in Slots : /\ tasks[t].op = "store" /\ NameOf(t) = n
                              /\ tasks'[t] # tasks[t]

\* A get(k1) that began after set(k1, v1) and a set on a key of another
\* digest, in flight together, had both returned, returns Some(v1).
BothReturn ==
    \A t \in Slots :
        (Follows(t) /\ obs[t].expect.key = tasks[t].key /\ obs[t].expect.apart)
            => tasks[t].result = Some(obs[t].expect.val)

\* C18: a set on k1 changes no record file but that of the digest of k1,
\* whatever runs beside it on keys of other digests; and after concurrent
\* set(k1, v1) and set(k2, v2) of different digests have completed,
\* get(k1) returns Some(v1) and get(k2) returns Some(v2).
C18_Independence == [][OnlyOwnRecord /\ BothReturn']_vars

\* C19: the open of a set has one effect whichever branch the metadata
\* check chose and whatever other sets on the digest did in between: a
\* file seen as existing is still there, and the open leaves the file
\* existing and empty, unless the open itself fails with an input/output
\* error or for want of a root directory, which the branch does not
\* change.
C19_CheckThenAct ==
    [][\A t \in Slots :
          (tasks[t].op = "store" /\ tasks[t].pc = "open" /\ tasks'[t] # tasks[t])
            => LET n == NameOf(t) IN
               /\ tasks[t].file_exists => files[n].exists
               /\ tasks'[t].pc = "write" <=> (root = "dir" /\ faults' = faults)
               /\ tasks'[t].pc = "write" => files'[n] = FileOf(<<>>)
               /\ tasks'[t].pc # "write" => files' = files]_vars

\* A set that saw no file has opened, and emptied, the file that another
\* set created and wrote in between.
C19_Witness ==
    \E t, u \in Slots :
        /\ t # u /\ NameOf(t) = NameOf(u)
        /\ tasks[t].op = "store" /\ tasks[t].pc = "write" /\ tasks[t].off = 0
        /\ ~tasks[t].file_exists /\ ~obs[t].before.exists
        /\ tasks[u].op = "store" /\ tasks[u].off > 0
        /\ files[NameOf(t)] = FileOf(<<>>)

\* A step of retrive changes no record file and creates none.
RetriveChangesNothing ==
    (\E t \in Slots : tasks'[t].op = "retrive" /\ tasks'[t] # tasks[t])
        => files' = files

\* A get(k) that began after a get(k) had returned, with no set on the
\* record file in flight or begun from the start of the first to the end
\* of the second and no failed input/output operation in either, returns
\* what the first returned.
SameAgain ==
    \A t \in Slots :
        (RetriveDone(t) /\ obs[t].prior.set /\ obs[t].calm /\ ~obs[t].ioerr)
            => tasks[t].result = obs[t].prior.res

\* C20: retrive, whatever it returns and whatever runs beside it, changes
\* no record file and creates none; two consecutive gets of a key with no
\* set between them return the same result.
C20_RetrieveReadOnly == [][RetriveChangesNothing /\ SameAgain']_vars

====
